---- MODULE Spec2Model ----
(***************************************************************************)
(* quickopds: src/__init__.py.  A directory of ebook files is scanned,     *)
(* the files are grouped into books by their stem, metadata is merged per  *)
(* book and an OPDS/Atom feed tree is built and written to index.xml.      *)
(*                                                                         *)
(* Python strings are sequences of one-character strings, so that          *)
(* endswith, slicing, lower, quote, isoformat/replace and the string       *)
(* comparison used by sorted() and max() are computed, not assumed.        *)
(* A Python dict used as a tree node is a record with a NAME field; a str  *)
(* child of a node is the record [str |-> s] (type(child) is str).         *)
(***************************************************************************)
EXTENDS Integers, Sequences, FiniteSets, TLC

(***************************************************************************)
(* Bounds of the model.                                                    *)
(***************************************************************************)
\* largest number of directory entries drawn from CorePool
MaxFiles == 3

(***************************************************************************)
(* Characters and the str operations the program uses.                     *)
(***************************************************************************)
Lowercase == <<"a","b","c","d","e","f","g","h","i","j","k","l","m",
               "n","o","p","q","r","s","t","u","v","w","x","y","z">>
Uppercase == <<"A","B","C","D","E","F","G","H","I","J","K","L","M",
               "N","O","P","Q","R","S","T","U","V","W","X","Y","Z">>
Digits == <<"0","1","2","3","4","5","6","7","8","9">>
HexDigits == <<"0","1","2","3","4","5","6","7","8","9","A","B","C","D","E","F">>

Range(s) == {s[i] : i \in 1..Len(s)}

IndexOf(s, c) == CHOOSE i \in 1..Len(s) : s[i] = c

\* ord(c): the code point of a character
Ord ==
  [c \in Range(Lowercase) \cup Range(Uppercase) \cup Range(Digits)
         \cup {" ", "%", "+", "-", ".", "/", ":", "<", ">", "_"} |->
     CASE c \in Range(Lowercase) -> 96 + IndexOf(Lowercase, c)
       [] c \in Range(Uppercase) -> 64 + IndexOf(Uppercase, c)
       [] c \in Range(Digits) -> 47 + IndexOf(Digits, c)
       [] c = " " -> 32
       [] c = "%" -> 37
       [] c = "+" -> 43
       [] c = "-" -> 45
       [] c = "." -> 46
       [] c = "/" -> 47
       [] c = ":" -> 58
       [] c = "<" -> 60
       [] c = ">" -> 62
       [] c = "_" -> 95]

\* str.__lt__: lexicographic comparison by code point
RECURSIVE StrLess(_, _)
StrLess(a, b) ==
  IF b = <<>> THEN FALSE
  ELSE IF a = <<>> THEN TRUE
  ELSE IF a[1] = b[1] THEN StrLess(Tail(a), Tail(b))
  ELSE Ord[a[1]] < Ord[b[1]]

\* min(a, b) in the place of max(a, b)
StrMin(a, b) == IF StrLess(b, a) THEN b ELSE a

\* max(a, b) on str: the first argument unless the second is greater
StrMax(a, b) == IF StrLess(a, b) THEN b ELSE a

\* str.endswith
EndsWith(s, e) ==
  /\ Len(e) <= Len(s)
  /\ SubSeq(s, Len(s) - Len(e) + 1, Len(s)) = e

\* s[: -n]; the slice s[: -0] is s[: 0], the empty string
SliceOff(s, n) == IF n = 0 THEN <<>> ELSE SubSeq(s, 1, Len(s) - n)

\* str.lower
LowerChar(c) == IF c \in Range(Uppercase) THEN Lowercase[IndexOf(Uppercase, c)] ELSE c
Lower(s) == [i \in 1..Len(s) |-> LowerChar(s[i])]

\* urllib.parse.quote with the default safe="/"
AlwaysSafe == Range(Lowercase) \cup Range(Uppercase) \cup Range(Digits)
                \cup {"_", ".", "-", "~", "/"}
QuoteChar(c) ==
  IF c \in AlwaysSafe THEN <<c>>
  ELSE <<"%", HexDigits[(Ord[c] \div 16) + 1], HexDigits[(Ord[c] % 16) + 1]>>
RECURSIVE quote(_)
quote(s) == IF s = <<>> THEN <<>> ELSE QuoteChar(s[1]) \o quote(Tail(s))

\* str.replace(old, new), scanning left to right
RECURSIVE Replace(_, _, _)
Replace(s, old, new) ==
  IF Len(s) < Len(old) THEN s
  ELSE IF SubSeq(s, 1, Len(old)) = old
       THEN new \o Replace(SubSeq(s, Len(old) + 1, Len(s)), old, new)
       ELSE <<s[1]>> \o Replace(Tail(s), old, new)

\* zero-padded decimal of n in w digits
RECURSIVE Pad(_, _)
Pad(n, w) == IF w = 0 THEN <<>> ELSE Pad(n \div 10, w - 1) \o <<Digits[(n % 10) + 1]>>

(***************************************************************************)
(* Module constants.                                                       *)
(***************************************************************************)
NAME == "NAME"
CHILDREN == "CHILDREN"
NAMESPACE == "NAMESPACE"
ACQUISITION == "http://opds-spec.org/acquisition"
IMAGE == "http://opds-spec.org/image"
FEED_FILENAME == <<"i","n","d","e","x",".","x","m","l">>
STYLE_FILENAME == <<"s","t","y","l","e",".","x","s","l">>
FEED_DIRECTORY_URL ==
  <<"h","t","t","p","s",":","/","/","m","y","o","u","n","g",".","u","k","/",
    "e","b","o","o","k","s","/">>

\* a str child of a node
Str(s) == [str |-> s]

\* the filename endings that key FORMATS
AdvancedEpub == <<"_","a","d","v","a","n","c","e","d",".","e","p","u","b">>
KepubEpub == <<".","k","e","p","u","b",".","e","p","u","b">>
DotEpub == <<".","e","p","u","b">>
DotAzw3 == <<".","a","z","w","3">>
CroppedPdf == <<"_","c","r","o","p","p","e","d",".","p","d","f">>
DotPdf == <<".","p","d","f">>
DotHtml == <<".","h","t","m","l">>
DotTxt == <<".","t","x","t">>
DotJpg == <<".","j","p","g">>
DotPng == <<".","p","n","g">>
DotGif == <<".","g","i","f">>
DotHtm == <<".","h","t","m">>
DotJpeg == <<".","j","p","e","g">>

HtmlAttributes ==
  [title |-> "html", CHILDREN |-> <<Str("Read directly in the browser")>>,
   type |-> "text/html", rel |-> ACQUISITION]
JpgAttributes == [type |-> "image/jpeg", rel |-> IMAGE]

\* the dict literal of lines 23-86: its items in insertion order
FORMATS_LITERAL ==
  << [ending |-> AdvancedEpub, attributes |->
        [title |-> "Advanced epub",
         CHILDREN |-> <<Str("An advanced format that uses the latest technology not yet fully supported by most ereaders")>>,
         type |-> "application/epub+zip", rel |-> ACQUISITION]],
     [ending |-> KepubEpub, attributes |->
        [title |-> "kepub", CHILDREN |-> <<Str("Kobo devices and apps")>>,
         type |-> "application/kepub+zip", rel |-> ACQUISITION]],
     [ending |-> DotEpub, attributes |->
        [title |-> "Compatible epub",
         CHILDREN |-> <<Str("All devices and apps except Kindles and Kobos")>>,
         type |-> "application/epub+zip", rel |-> ACQUISITION]],
     [ending |-> DotAzw3, attributes |->
        [title |-> "azw3", CHILDREN |-> <<Str("Kindle devices and apps")>>,
         type |-> "application/x-mobipocket-ebook", rel |-> ACQUISITION]],
     [ending |-> CroppedPdf, attributes |->
        [title |-> "Cropped pdf",
         CHILDREN |-> <<Str("Fixed page layout cropped tightly to content")>>,
         type |-> "application/pdf", rel |-> ACQUISITION]],
     [ending |-> DotPdf, attributes |->
        [title |-> "pdf", CHILDREN |-> <<Str("Fixed page layout")>>,
         type |-> "application/pdf", rel |-> ACQUISITION]],
     [ending |-> DotHtml, attributes |-> HtmlAttributes],
     [ending |-> DotTxt, attributes |->
        [title |-> "txt", CHILDREN |-> <<Str("Plain text with no formatting")>>,
         type |-> "text/plain", rel |-> ACQUISITION]],
     [ending |-> DotJpg, attributes |-> JpgAttributes],
     [ending |-> DotPng, attributes |-> [type |-> "image/png", rel |-> IMAGE]],
     [ending |-> DotGif, attributes |-> [type |-> "image/gif", rel |-> IMAGE]] >>

\* the same items with the literal's keys in the opposite order
FORMATS_Reversed ==
  [i \in 1..Len(FORMATS_LITERAL) |-> FORMATS_LITERAL[Len(FORMATS_LITERAL) + 1 - i]]
    \o << [ending |-> DotHtm, attributes |-> HtmlAttributes],
          [ending |-> DotJpeg, attributes |-> JpgAttributes],
          [ending |-> <<>>, attributes |-> [type |-> "unknown"]] >>

\* FORMATS after lines 87-89, which add the keys ".htm", ".jpeg" and ""
\* behind the literal's keys
FORMATS ==
  FORMATS_LITERAL
    \o << [ending |-> DotHtm, attributes |-> HtmlAttributes],
          [ending |-> DotJpeg, attributes |-> JpgAttributes],
          [ending |-> <<>>, attributes |-> [type |-> "unknown"]] >>

(***************************************************************************)
(* Helpers of make_tree.                                                   *)
(***************************************************************************)
\* text_item(name, text)
text_item(name, text) == [NAME |-> name, CHILDREN |-> <<Str(text)>>]

\* a | b on dicts: the keys of both, b's value where both have the key
DictUnion(a, b) ==
  [k \in DOMAIN a \cup DOMAIN b |-> IF k \in DOMAIN b THEN b[k] ELSE a[k]]

\* x goes behind position i instead of before it
ListInsert_After(l, i, x) ==
  IF i + 1 >= Len(l) THEN Append(l, x)
  ELSE SubSeq(l, 1, i + 1) \o <<x>> \o SubSeq(l, i + 2, Len(l))

\* list.insert(i, x): x goes before position i (0-based), at the end when
\* i is beyond the list
ListInsert(l, i, x) ==
  IF i >= Len(l) THEN Append(l, x)
  ELSE SubSeq(l, 1, i) \o <<x>> \o SubSeq(l, i + 1, Len(l))

\* datetime.fromtimestamp(mtime, UTC).isoformat(): mtime in microseconds,
\* less than one hour after the epoch; the fraction is printed only when
\* it is not zero
isoformat(mtime) ==
  LET secs == mtime \div 1000000
      micro == mtime % 1000000
  IN <<"1","9","7","0","-","0","1","-","0","1","T","0","0",":">>
       \o Pad(secs \div 60, 2) \o <<":">> \o Pad(secs % 60, 2)
       \o (IF micro = 0 THEN <<>> ELSE <<".">> \o Pad(micro, 6))
       \o <<"+","0","0",":","0","0">>

\* timestamp(f)
timestamp(f) == Replace(isoformat(f.mtime), <<"+","0","0",":","0","0">>, <<"Z">>)

\* sub in text
Contains(text, sub) ==
  \E i \in 1..(Len(text) - Len(sub) + 1) : SubSeq(text, i, i + Len(sub) - 1) = sub

\* HTMLFilter.feed: the data outside tags; an unterminated tag is held back
RECURSIVE HTMLFilterText(_, _)
HTMLFilterText(text, inTag) ==
  IF text = <<>> THEN <<>>
  ELSE IF inTag THEN HTMLFilterText(Tail(text), text[1] # ">")
  ELSE IF text[1] = "<" THEN HTMLFilterText(Tail(text), TRUE)
  ELSE <<text[1]>> \o HTMLFilterText(Tail(text), FALSE)

\* filter_html(text)
filter_html(text) ==
  IF Contains(text, <<"<">>) \/ Contains(text, <<"&","l","t",";">>)
  THEN HTMLFilterText(text, FALSE)
  ELSE text

\* the suffix loop of make_tree: the first item of FORMATS, in dict order,
\* whose key ends the name; the key "" ends every name
FirstMatch(name) ==
  CHOOSE i \in 1..Len(FORMATS) :
    /\ EndsWith(name, FORMATS[i].ending)
    /\ \A j \in 1..(i - 1) : ~EndsWith(name, FORMATS[j].ending)

Classify(name) ==
  LET item == FORMATS[FirstMatch(name)]
  IN [ending |-> item.ending,
      attributes |-> item.attributes,
      stem |-> SliceOff(name, Len(item.ending))]

\* every file that is not a PDF is read as an EPUB
ExtractorFor_ElseEpub(name) ==
  IF EndsWith(Lower(name), DotPdf) THEN "pdf" ELSE "epub"

\* which extractor line 238-243 picks for a file name
ExtractorFor(name) ==
  IF EndsWith(Lower(name), DotPdf) THEN "pdf"
  ELSE IF EndsWith(Lower(name), DotEpub) THEN "epub"
  ELSE "none"

(***************************************************************************)
(* The metadata extractors (pypdf / zipfile + ElementTree readers): what   *)
(* make_tree consumes is the returned dict, or the exception they raise.   *)
(***************************************************************************)
\* the value a file holds for a key: the text of the file's own element, so
\* that the values of different files differ; a description carries markup
Value(key, name) ==
  CASE key = "title" -> <<"t",":">> \o name
    [] key = "author" -> <<"b","y",":">> \o name
    [] key = "content" -> <<"<","b",">">> \o name \o <<"<","/","b",">">>

\* the dicts that hold the file's value for each key of a subset of keys
MetaDicts(keys, name) ==
  { [k \in d |-> Value(k, name)] : d \in SUBSET keys }

\* get_pdf_metadata(name): the tags "author" and "title", each only if the
\* document information has the key
get_pdf_metadata(name) == MetaDicts({"author", "title"}, name)

\* get_epub_metadata(name): "title", "author", "content", each only if the
\* element exists and has text
get_epub_metadata(name) == MetaDicts({"title", "author", "content"}, name)

\* the value of meta after lines 238-243 when no extractor raises
MetaResults(name) ==
  CASE ExtractorFor(name) = "pdf" -> get_pdf_metadata(name)
    [] ExtractorFor(name) = "epub" -> get_epub_metadata(name)
    [] OTHER -> {<<>>}

(***************************************************************************)
(* The directories the scan is run on.                                     *)
(***************************************************************************)
\* st_mtime in microseconds: a whole second and a later instant within it
MTimes == {0, 500000}

Stem_a == <<"a">>
\* the directory entries several-file directories are drawn from: three
\* metadata-carrying files of stem "a", an image of stem "a" that sorts after
\* one of them, a file of stem "a.f" that sorts between files of stem "a",
\* an unrecognised file that sorts between recognised files, and a
\* subdirectory
CorePool ==
  { [name |-> Stem_a \o DotEpub, is_file |-> TRUE],
    [name |-> Stem_a \o <<".","f">> \o DotTxt, is_file |-> TRUE],
    [name |-> Stem_a \o DotJpg, is_file |-> TRUE],
    [name |-> Stem_a \o KepubEpub, is_file |-> TRUE],
    [name |-> Stem_a \o DotPdf, is_file |-> TRUE],
    [name |-> Stem_a \o <<".","g","z">>, is_file |-> TRUE],
    [name |-> <<"d">> \o DotEpub, is_file |-> FALSE] }

\* the names one-file directories are drawn from
WideStems ==
  { <<>>, <<"a">>, <<"a"," ","B">>, <<"a",".","k","e","p","u","b">>,
    <<"a","_","a","d","v","a","n","c","e","d">>, <<"a","_","c","r","o","p","p","e","d">>,
    <<"a",".","p","d","f">>, <<"a",".","e","p","u","b">> }
WideEndings ==
  { FORMATS[i].ending : i \in 1..Len(FORMATS) }
    \cup { <<".","x","y","z">>, <<".","P","D","F">>, <<".","E","P","U","B">>,
           <<"e","p","u","b">>, <<"_","e","p","u","b">>, <<".","p","d","f","x">> }
WidePool == { s \o e : s \in WideStems, e \in WideEndings } \ {<<>>}

Directories ==
  UNION { { { [name |-> p.name, is_file |-> p.is_file, mtime |-> m[p]] : p \in S } :
            m \in { mm \in [S -> MTimes] : \A p \in S : ~p.is_file => mm[p] = 0 } } :
          S \in { T \in SUBSET CorePool : Cardinality(T) <= MaxFiles } }
    \cup { { [name |-> n, is_file |-> TRUE, mtime |-> 500000] } : n \in WidePool }

\* sorted(directory.iterdir()): ascending by name
RECURSIVE sorted(_)
sorted(S) ==
  IF S = {} THEN <<>>
  ELSE LET least == CHOOSE f \in S : \A g \in S \ {f} : StrLess(f.name, g.name)
       IN <<least>> \o sorted(S \ {least})

(***************************************************************************)
(* dict_to_xml: the element tree generate_xml writes.                      *)
(***************************************************************************)
None == [None |-> TRUE]
IsDict(child) == NAME \in DOMAIN child

RECURSIVE dict_to_xml(_)
dict_to_xml(d) ==
  LET kids == IF CHILDREN \in DOMAIN d THEN d[CHILDREN] ELSE <<>>
      dicts == SelectSeq(kids, IsDict)
      strs == SelectSeq(kids, LAMBDA c : ~IsDict(c))
  IN [tag |-> d[NAME],
      attrib |-> [k \in DOMAIN d \ {NAME, CHILDREN, NAMESPACE} |-> d[k]],
      nsmap |-> IF NAMESPACE \in DOMAIN d THEN d[NAMESPACE] ELSE <<>>,
      text |-> IF Len(strs) = 0 THEN None ELSE strs[Len(strs)],
      children |-> [i \in 1..Len(dicts) |-> dict_to_xml(dicts[i])]]

(***************************************************************************)
(* State.                                                                  *)
(***************************************************************************)
VARIABLES
  caller,      \* "module": the statements of lines 304-306 as written;
               \* "direct": make_tree and generate_xml called with the
               \* parameters their definitions declare
  pc,          \* position of the run
  exception,   \* the exception that ended the run, or "None"
  readable,    \* whether directory.iterdir() succeeds
  directory,   \* the directory's entries: name, is_file, mtime (microseconds)
  files,       \* sorted(directory.iterdir())
  idx,         \* position of the for loop in files (1-based)
  order,       \* key insertion order of the dicts entries, updated, titles, ...
  entries,     \* stem -> entry node
  updated,     \* stem -> latest timestamp string of the book
  titles,      \* stem -> title
  authors,     \* stem -> author
  contents,    \* stem -> content
  latest,      \* latest timestamp string of the whole directory
  stdout,      \* what print() wrote
  tree_dict,   \* the value make_tree returned
  feed,        \* index.xml: None or what generate_xml wrote
  writes,      \* number of writes to index.xml
  log          \* history: one record per regular file the loop has handled

vars == <<caller, pc, exception, readable, directory, files, idx, order, entries,
          updated, titles, authors, contents, latest, stdout, tree_dict, feed,
          writes, log>>

\* number of parameters of make_tree(directory, url) and of
\* generate_xml(tree, outfile)
MakeTreeParams == 2
GenerateXmlParams == 2
\* number of arguments at line 304 and at line 306
ModuleMakeTreeArgs == 1
ModuleGenerateXmlArgs == 3

\* the url argument of make_tree
url == FEED_DIRECTORY_URL

EmptyDict == <<>>

Init ==
  /\ caller \in {"module", "direct"}
  /\ pc = "start"
  /\ exception = "None"
  /\ readable \in BOOLEAN
  /\ directory \in Directories
  /\ files = <<>>
  /\ idx = 0
  /\ order = <<>>
  /\ entries = EmptyDict
  /\ updated = EmptyDict
  /\ titles = EmptyDict
  /\ authors = EmptyDict
  /\ contents = EmptyDict
  /\ latest = <<>>
  /\ stdout = <<>>
  /\ tree_dict = None
  /\ feed = None
  /\ writes = 0
  /\ log = <<>>

(***************************************************************************)
(* Actions.                                                                *)
(***************************************************************************)
\* line 304 / line 186: the call binds its arguments to make_tree's
\* parameters; a missing argument raises TypeError before the body runs
CallMakeTree ==
  /\ pc = "start"
  /\ LET args == IF caller = "module" THEN ModuleMakeTreeArgs ELSE MakeTreeParams
     IN IF args = MakeTreeParams
        THEN pc' = "list" /\ UNCHANGED exception
        ELSE pc' = "error" /\ exception' = "TypeError"
  /\ UNCHANGED <<caller, readable, directory, files, idx, order, entries, updated,
                 titles, authors, contents, latest, stdout, tree_dict, feed,
                 writes, log>>

\* line 198: sorted(directory.iterdir())
ListDirectory ==
  /\ pc = "list"
  /\ IF readable
     THEN /\ files' = sorted(directory)
          /\ idx' = 1
          /\ pc' = "loop"
          /\ UNCHANGED exception
     ELSE /\ pc' = "error"
          /\ exception' = "OSError"
          /\ UNCHANGED <<files, idx>>
  /\ UNCHANGED <<caller, readable, directory, order, entries, updated, titles,
                 authors, contents, latest, stdout, tree_dict, feed, writes, log>>

InLoop == pc = "loop" /\ idx <= Len(files)

\* line 199: an entry that is not a regular file is passed over
SkipNonFile ==
  /\ InLoop
  /\ ~files[idx].is_file
  /\ idx' = idx + 1
  /\ UNCHANGED <<caller, pc, exception, readable, directory, files, order, entries,
                 updated, titles, authors, contents, latest, stdout, tree_dict,
                 feed, writes, log>>

LogRecord(f, c, extractor, raised, meta) ==
  [name |-> f.name, mtime |-> f.mtime, ending |-> c.ending, stem |-> c.stem,
   extractor |-> extractor, raised |-> raised, meta |-> meta]

\* lines 201-210: the only ending that matches is "": print and continue
UnknownFile ==
  /\ InLoop
  /\ files[idx].is_file
  /\ LET f == files[idx]
         c == Classify(f.name)
     IN /\ c.ending = <<>>
        /\ stdout' = Append(stdout, <<Str("Unknown filetype"), Str(f.name)>>)
        /\ log' = Append(log, LogRecord(f, c, "none", FALSE, EmptyDict))
  /\ idx' = idx + 1
  /\ UNCHANGED <<caller, pc, exception, readable, directory, files, order, entries,
                 updated, titles, authors, contents, latest, tree_dict, feed,
                 writes>>

\* the key is set anew for every file of the book
WithDefault_Always(dict, stem, value) == (stem :> value) @@ dict

\* lines 213-222: a dict with the key stem added, if it is new
WithDefault(dict, stem, value) ==
  IF stem \in DOMAIN dict THEN dict ELSE dict @@ (stem :> value)

\* lines 212-235: entry creation, the link, the two timestamps
AddLink(f, c) ==
  LET stem == c.stem
      link == DictUnion([NAME |-> "link", href |-> url \o quote(f.name)], c.attributes)
  IN /\ order' = IF stem \in DOMAIN entries THEN order ELSE Append(order, stem)
     /\ entries' =
          [WithDefault(entries, stem,
                       [NAME |-> "entry",
                        CHILDREN |-> <<text_item("id", url \o quote(stem))>>])
             EXCEPT ![stem].CHILDREN = Append(@, link)]
     /\ updated' = [WithDefault(updated, stem, <<>>)
                      EXCEPT ![stem] = StrMax(@, timestamp(f))]
     /\ latest' = StrMax(latest, timestamp(f))

\* a key absent from meta blanks the book's field
Merge_Blank(dict, stem, default, meta, key) ==
  IF key \in DOMAIN meta
  THEN [WithDefault(dict, stem, default) EXCEPT ![stem] = meta[key]]
  ELSE [WithDefault(dict, stem, default) EXCEPT ![stem] = default]

\* lines 244-249: the keys present in meta overwrite the book's fields
Merge(dict, stem, default, meta, key) ==
  IF key \in DOMAIN meta
  THEN [WithDefault(dict, stem, default) EXCEPT ![stem] = meta[key]]
  ELSE WithDefault(dict, stem, default)

\* lines 212-249 for a recognised file whose metadata, if any is read, is
\* returned
AddFile ==
  /\ InLoop
  /\ files[idx].is_file
  /\ LET f == files[idx]
         c == Classify(f.name)
     IN /\ c.ending # <<>>
        /\ AddLink(f, c)
        /\ \E meta \in MetaResults(f.name) :
             /\ titles' = Merge(titles, c.stem, c.stem, meta, "title")
             /\ authors' = Merge(authors, c.stem, <<"U","n","k","n","o","w","n">>,
                                 meta, "author")
             /\ contents' = Merge(contents, c.stem, <<>>, meta, "content")
             /\ log' = Append(log, LogRecord(f, c, ExtractorFor(f.name), FALSE, meta))
  /\ idx' = idx + 1
  /\ UNCHANGED <<caller, pc, exception, readable, directory, files, stdout,
                 tree_dict, feed, writes>>

\* the extractor's exception is caught and the loop goes on
ExtractorRaises_Swallowed ==
  /\ InLoop
  /\ files[idx].is_file
  /\ LET f == files[idx]
         c == Classify(f.name)
     IN /\ c.ending # <<>>
        /\ ExtractorFor(f.name) # "none"
        /\ AddLink(f, c)
        /\ titles' = WithDefault(titles, c.stem, c.stem)
        /\ authors' = WithDefault(authors, c.stem, <<"U","n","k","n","o","w","n">>)
        /\ contents' = WithDefault(contents, c.stem, <<>>)
        /\ log' = Append(log, LogRecord(f, c, ExtractorFor(f.name), TRUE, EmptyDict))
  /\ idx' = idx + 1
  /\ UNCHANGED <<caller, pc, exception, readable, directory, files, stdout,
                 tree_dict, feed, writes>>

\* lines 212-241 for a recognised file whose extractor raises: the exception
\* leaves make_tree and the module
ExtractorRaises ==
  /\ InLoop
  /\ files[idx].is_file
  /\ LET f == files[idx]
         c == Classify(f.name)
     IN /\ c.ending # <<>>
        /\ ExtractorFor(f.name) # "none"
        /\ AddLink(f, c)
        /\ titles' = WithDefault(titles, c.stem, c.stem)
        /\ authors' = WithDefault(authors, c.stem, <<"U","n","k","n","o","w","n">>)
        /\ contents' = WithDefault(contents, c.stem, <<>>)
        /\ log' = Append(log, LogRecord(f, c, ExtractorFor(f.name), TRUE, EmptyDict))
  /\ pc' = "error"
  /\ exception' = "ExtractorError"
  /\ UNCHANGED <<caller, readable, directory, files, idx, stdout, tree_dict, feed,
                 writes>>

\* lines 251-264 for one entry: the four inserts, in the order of the loops
Finished(stem) ==
  LET c0 == entries[stem].CHILDREN
      c1 == ListInsert(c0, 1, text_item("updated", updated[stem]))
      c2 == ListInsert(c1, 2, text_item("title", titles[stem]))
      c3 == ListInsert(c2, 3, [NAME |-> "author",
                               CHILDREN |-> <<text_item("name", authors[stem])>>])
      c4 == ListInsert(c3, 4, [NAME |-> "content", type |-> "text",
                               CHILDREN |-> <<Str(filter_html(contents[stem]))>>])
  IN [entries[stem] EXCEPT !.CHILDREN = c4]

\* the values in the opposite order
EntryValues_Reversed(keys, dict) == [i \in 1..Len(keys) |-> dict[keys[Len(keys) + 1 - i]]]

\* line 273: list(entries.values()), the values in key insertion order
EntryValues(keys, dict) == [i \in 1..Len(keys) |-> dict[keys[i]]]

\* lines 251-282: the loop is over; the entries are finished and the feed
\* node is returned
BuildTree ==
  /\ pc = "loop"
  /\ idx > Len(files)
  /\ entries' = [stem \in DOMAIN entries |-> Finished(stem)]
  /\ tree_dict' =
       [NAME |-> "feed",
        NAMESPACE |-> [default |-> "http://www.w3.org/2005/Atom",
                       opds |-> "http://opds-spec.org/2010/catalog",
                       dcterms |-> "http://purl.org/dc/terms/"],
        CHILDREN |->
          << text_item("title", "Michael Young's ebooks"),
             text_item("id", url \o FEED_FILENAME),
             text_item("updated", latest),
             [NAME |-> "author", CHILDREN |-> <<text_item("name", "Michael Young")>>],
             [NAME |-> "link", rel |-> "self", type |-> "application/atom+xml",
              href |-> url] >>
          \o EntryValues(order, entries')]
  /\ pc' = "built"
  /\ UNCHANGED <<caller, exception, readable, directory, files, idx, order, updated,
                 titles, authors, contents, latest, stdout, log, feed, writes>>

\* line 306 / lines 285-295: the tree is converted and written to index.xml
\* with the stylesheet processing instruction
GenerateXml ==
  /\ pc = "built"
  /\ LET args == IF caller = "module" THEN ModuleGenerateXmlArgs ELSE GenerateXmlParams
     IN IF args = GenerateXmlParams
        THEN /\ feed' = [stylesheet |-> STYLE_FILENAME, root |-> dict_to_xml(tree_dict)]
             /\ writes' = writes + 1
             /\ pc' = "written"
             /\ UNCHANGED exception
        ELSE /\ pc' = "error"
             /\ exception' = "NameError"
             /\ UNCHANGED <<feed, writes>>
  /\ UNCHANGED <<caller, readable, directory, files, idx, order, entries, updated,
                 titles, authors, contents, latest, stdout, tree_dict, log>>

\* lines 308-314: the feed is parsed back, transformed with style.xsl and
\* printed; parsing a missing or malformed style.xsl raises
Transform ==
  /\ pc = "written"
  /\ \E styled \in BOOLEAN :
       IF styled
       THEN /\ stdout' = stdout \o <<<<Str("STYLED VERSION")>>, <<Str("result")>>>>
            /\ pc' = "done"
            /\ UNCHANGED exception
       ELSE /\ pc' = "error"
            /\ exception' = "XMLError"
            /\ UNCHANGED stdout
  /\ UNCHANGED <<caller, readable, directory, files, idx, order, entries, updated,
                 titles, authors, contents, latest, tree_dict, feed, writes, log>>

Next ==
  \/ CallMakeTree
  \/ ListDirectory
  \/ SkipNonFile
  \/ UnknownFile
  \/ AddFile
  \/ ExtractorRaises
  \/ BuildTree
  \/ GenerateXml
  \/ Transform

Spec == Init /\ [][Next]_vars

(***************************************************************************)
(* Vocabulary of the properties.                                           *)
(***************************************************************************)
\* the for loop has handled every directory entry
LoopDone == (pc = "loop" /\ idx > Len(files)) \/ pc \in {"built", "written", "done"}

\* make_tree has returned
TreeBuilt == pc \in {"built", "written", "done"}

RegisteredEndings == { FORMATS[i].ending : i \in 1..Len(FORMATS) } \ {<<>>}

\* the registered non-empty endings a name ends with
Matching(name) == { e \in RegisteredEndings : EndsWith(name, e) }

\* positions of the log whose file was recognised and grouped under stem
FilesOf(stem) == { i \in 1..Len(log) : log[i].ending # <<>> /\ log[i].stem = stem }

Recognised == { i \in 1..Len(log) : log[i].ending # <<>> }

MaxOf(S) == CHOOSE x \in S : \A y \in S : y <= x
MinOf(S) == CHOOSE x \in S : \A y \in S : x <= y

\* the link children of an entry node, in order
LinksOf(entry) == SelectSeq(entry.CHILDREN, LAMBDA c : c.NAME = "link")

(***************************************************************************)
(* C1: classification selects the longest registered non-empty ending that *)
(* the file name ends with, and the stem is the name with exactly that     *)
(* ending removed; a name that ends with no registered non-empty ending is *)
(* unrecognised.  A multi-part ending is never consumed by the bare        *)
(* extension it contains.                                                  *)
(***************************************************************************)
C1_LongestSuffix ==
  \A i \in 1..Len(log) :
    LET r == log[i]
        m == Matching(r.name)
    IN IF m = {}
       THEN r.ending = <<>>
       ELSE /\ r.ending \in m
            /\ \A e \in m : Len(e) <= Len(r.ending)
            /\ r.stem \o r.ending = r.name

\* a file whose name ends with two registered endings has been classified
C1_Witness ==
  \E i \in 1..Len(log) : Cardinality(Matching(log[i].name)) >= 2

(***************************************************************************)
(* C2: for every book and each of title, author and content, the field is  *)
(* the value returned by the last file of the book, in processing order,   *)
(* whose extraction result had that field, and the default (the stem,      *)
(* "Unknown", the empty string) when no file of the book returned it.      *)
(***************************************************************************)
FieldDict(key) ==
  CASE key = "title" -> titles
    [] key = "author" -> authors
    [] key = "content" -> contents

FieldDefault(key, stem) ==
  CASE key = "title" -> stem
    [] key = "author" -> <<"U","n","k","n","o","w","n">>
    [] key = "content" -> <<>>

C2_LastWriteWins ==
  LoopDone =>
    \A key \in {"title", "author", "content"} :
      /\ DOMAIN FieldDict(key) = { log[i].stem : i \in Recognised }
      /\ \A stem \in DOMAIN FieldDict(key) :
           LET givers == { i \in FilesOf(stem) : key \in DOMAIN log[i].meta }
           IN FieldDict(key)[stem] =
                IF givers = {} THEN FieldDefault(key, stem)
                ELSE log[MaxOf(givers)].meta[key]

\* a book of three files: the first two return a title, the third does not
C2_Witness ==
  /\ LoopDone
  /\ \E stem \in DOMAIN titles :
       \E i, j, k \in FilesOf(stem) :
         /\ i < j /\ j < k
         /\ "title" \in DOMAIN log[i].meta
         /\ "title" \in DOMAIN log[j].meta
         /\ "title" \notin DOMAIN log[k].meta

(***************************************************************************)
(* C3: the entries of the feed are in the order in which their stems were  *)
(* first met in the sorted file sequence, and the links of each entry are  *)
(* in the order in which their files were processed.                       *)
(***************************************************************************)
RECURSIVE Ascending(_)
Ascending(S) == IF S = {} THEN <<>> ELSE <<MinOf(S)>> \o Ascending(S \ {MinOf(S)})

\* positions of the log at which a stem is met for the first time
FirstMet == { i \in Recognised : \A j \in Recognised : j < i => log[j].stem # log[i].stem }

Hrefs(links) == [n \in 1..Len(links) |-> links[n].href]

C3_FirstSeenOrder ==
  TreeBuilt =>
    LET kids == tree_dict.CHILDREN
        ents == SubSeq(kids, 6, Len(kids))
        firsts == Ascending(FirstMet)
    IN /\ \A i, j \in 1..Len(log) : i < j => StrLess(log[i].name, log[j].name)
       /\ Len(ents) = Len(firsts)
       /\ \A k \in 1..Len(ents) :
            LET stem == log[firsts[k]].stem
                mine == Ascending(FilesOf(stem))
            IN /\ ents[k].NAME = "entry"
               /\ ents[k].CHILDREN[1].CHILDREN[1].str = url \o quote(stem)
               /\ Hrefs(LinksOf(ents[k])) =
                    [n \in 1..Len(mine) |-> url \o quote(log[mine[n]].name)]

\* the feed is built from a scan in which a file of another stem was
\* processed between two files of one stem
C3_Witness ==
  /\ TreeBuilt
  /\ \E i, j, k \in Recognised :
       /\ i < j /\ j < k
       /\ log[i].stem = log[k].stem
       /\ log[i].stem # log[j].stem

(***************************************************************************)
(* C4: after all files are processed, each book's updated timestamp is the *)
(* timestamp of the most recently modified file of the book.               *)
(***************************************************************************)
C4_UpdatedIsLatest ==
  LoopDone =>
    \A stem \in DOMAIN updated :
      updated[stem] = timestamp([mtime |-> MaxOf({ log[i].mtime : i \in FilesOf(stem) })])

(***************************************************************************)
(* C5 as stated: the feed-level updated timestamp is the timestamp of the  *)
(* most recently modified file of the directory, recognised or not, and is *)
(* the empty string only when the directory has no files.                  *)
(***************************************************************************)
RegularFiles == { f \in directory : f.is_file }

RecognisedFiles == { f \in RegularFiles : Matching(f.name) # {} }

Unrecognised == { i \in 1..Len(log) : log[i].ending = <<>> }

C6_LinksMatchFiles ==
  /\ DOMAIN entries = { log[i].stem : i \in Recognised }
  /\ \A stem \in DOMAIN entries :
       LET mine == Ascending(FilesOf(stem))
       IN /\ Len(LinksOf(entries[stem])) >= 1
          /\ Hrefs(LinksOf(entries[stem])) =
               [n \in 1..Len(mine) |-> url \o quote(log[mine[n]].name)]
  /\ \A i, j \in Recognised : i # j => quote(log[i].name) # quote(log[j].name)
  /\ \A i \in Unrecognised :
       /\ \A stem \in DOMAIN entries :
            \A n \in 1..Len(LinksOf(entries[stem])) :
              LinksOf(entries[stem])[n].href # url \o quote(log[i].name)
       /\ Cardinality({ n \in 1..Len(stdout) :
                          stdout[n] = <<Str("Unknown filetype"), Str(log[i].name)>> }) = 1
  /\ Cardinality({ n \in 1..Len(stdout) : stdout[n][1] = Str("Unknown filetype") })
       = Cardinality(Unrecognised)

\* a step that logs an unrecognised file changes no book
C6_UnknownChangesNothing ==
  (Len(log') = Len(log) + 1 /\ log'[Len(log')].ending = <<>>)
    => UNCHANGED <<order, entries, updated, titles, authors, contents, latest>>

\* C6: the correspondence holds in every state, and no step that skips an
\* unrecognised file changes a book
C6_OneLinkPerFile == [](C6_LinksMatchFiles) /\ [][C6_UnknownChangesNothing]_vars

\* an unrecognised file has been skipped after a book got its link, and a
\* recognised file has been processed after it
C6_Witness ==
  \E i, j, k \in 1..Len(log) :
    /\ i < j /\ j < k
    /\ i \in Recognised /\ j \in Unrecognised /\ k \in Recognised

(***************************************************************************)
(* C7: when the directory listing or an extractor fails, index.xml is      *)
(* neither produced nor modified; index.xml is written only after every    *)
(* regular file has been classified and every extractor that was invoked   *)
(* has returned.                                                           *)
(***************************************************************************)
C7_NoPartialFeed ==
  /\ exception \in {"OSError", "ExtractorError"} => (writes = 0 /\ feed = None)
  /\ (writes > 0 \/ feed # None) =>
       /\ readable
       /\ { log[i].name : i \in 1..Len(log) } = { f.name : f \in RegularFiles }
       /\ \A i \in 1..Len(log) : ~log[i].raised
       /\ TreeBuilt \/ pc = "error"

\* an extractor raised after earlier files had been processed, and the run
\* has ended with index.xml untouched
C7_Witness ==
  /\ pc = "error"
  /\ exception = "ExtractorError"
  /\ Len(log) >= 2
  /\ log[Len(log)].raised
  /\ writes = 0

(***************************************************************************)
(* C8: a run on a readable directory in which no extractor fails ends with *)
(* index.xml written exactly once, with one entry per book.                *)
(***************************************************************************)
C8_FeedWrittenOnce ==
  (pc \in {"done", "error"} /\ readable /\ \A i \in 1..Len(log) : ~log[i].raised)
    => /\ writes = 1
       /\ feed # None
       /\ Cardinality({ n \in 1..Len(feed.root.children) :
                          feed.root.children[n].tag = "entry" })
            = Cardinality(DOMAIN entries)

(***************************************************************************)
(* C9: every finished entry has as children exactly one id, one updated,   *)
(* one title, one author with a nested name and one content, in that       *)
(* order, followed by all the links of the book in the order in which they *)
(* were appended.                                                          *)
(***************************************************************************)
NamesOf(children) == [i \in 1..Len(children) |-> children[i].NAME]

C9_EntryChildren ==
  TreeBuilt =>
    /\ Len(tree_dict.CHILDREN) = 5 + Len(order)
    /\ \A k \in 1..Len(order) :
         LET stem == order[k]
             c == tree_dict.CHILDREN[5 + k].CHILDREN
             mine == Ascending(FilesOf(stem))
         IN /\ Len(mine) >= 1
            /\ NamesOf(c) = <<"id", "updated", "title", "author", "content">>
                              \o [n \in 1..Len(mine) |-> "link"]
            /\ c[1].CHILDREN[1].str = url \o quote(stem)
            /\ c[2].CHILDREN[1].str = updated[stem]
            /\ c[3].CHILDREN[1].str = titles[stem]
            /\ NamesOf(c[4].CHILDREN) = <<"name">>
            /\ c[4].CHILDREN[1].CHILDREN[1].str = authors[stem]
            /\ Len(c[5].CHILDREN) = 1
            /\ [n \in 1..Len(mine) |-> c[5 + n].href]
                 = [n \in 1..Len(mine) |-> url \o quote(log[mine[n]].name)]

\* the feed is built with a book of one link and a book of several links
C9_Witness ==
  /\ TreeBuilt
  /\ \E s, t \in DOMAIN entries :
       /\ Cardinality(FilesOf(s)) = 1
       /\ Cardinality(FilesOf(t)) >= 2

(***************************************************************************)
(* C10: an extractor is invoked only for recognised PDF and EPUB files;    *)
(* processing a recognised file of another kind adds a link and updates    *)
(* the timestamps but leaves every book's title, author and content as     *)
(* they were, and processing any file leaves the title, author and content *)
(* of the other books as they were.                                        *)
(***************************************************************************)
PdfEndings == {CroppedPdf, DotPdf}
EpubEndings == {AdvancedEpub, KepubEpub, DotEpub}
OtherEndings == RegisteredEndings \ (PdfEndings \cup EpubEndings)

C10_OnlyPdfAndEpub ==
  \A i \in 1..Len(log) :
    /\ log[i].extractor = "pdf" => log[i].ending \in PdfEndings
    /\ log[i].extractor = "epub" => log[i].ending \in EpubEndings
    /\ log[i].ending \in OtherEndings \cup {<<>>} =>
         (log[i].extractor = "none" /\ DOMAIN log[i].meta = {})

C10_Step ==
  LET grew == Len(log') = Len(log) + 1
      r == log'[Len(log')]
      other == grew /\ r.ending \in OtherEndings
  IN /\ \A s \in DOMAIN titles :
          (~grew \/ r.ending = <<>> \/ s # r.stem \/ other) =>
             /\ s \in DOMAIN titles'
             /\ titles'[s] = titles[s]
             /\ authors'[s] = authors[s]
             /\ contents'[s] = contents[s]
     /\ DOMAIN titles' \subseteq DOMAIN titles \cup (IF grew THEN {r.stem} ELSE {})
     /\ other =>
          /\ Len(LinksOf(entries'[r.stem])) =
               1 + (IF r.stem \in DOMAIN entries THEN Len(LinksOf(entries[r.stem])) ELSE 0)
          /\ ~StrLess(updated'[r.stem], timestamp(r))
          /\ ~StrLess(latest', timestamp(r))
          /\ r.stem \notin DOMAIN titles =>
               /\ titles'[r.stem] = r.stem
               /\ authors'[r.stem] = <<"U","n","k","n","o","w","n">>
               /\ contents'[r.stem] = <<>>

\* C10: extractors are invoked for PDF and EPUB files only, and every step
\* leaves the fields of the books it does not extract for as they were
C10_NoMetadataFromOtherKinds == [](C10_OnlyPdfAndEpub) /\ [][C10_Step]_vars

\* a file of another kind has just been processed for a book whose title
\* an earlier file had set
C10_Witness ==
  /\ pc = "loop"
  /\ Len(log) >= 2
  /\ log[Len(log)].ending \in OtherEndings
  /\ titles[log[Len(log)].stem] # log[Len(log)].stem

====
